---------------------------- MODULE Spec2Model ----------------------------
(***************************************************************************)
(* A model of h2-net-lcd: the poll loop of src/src/main.rs (telemetry      *)
(* sampling, NetStats rate/history tracking, the display_char quantizer    *)
(* and the frame layout) and the display set-up of src/src/lcd_display.rs. *)
(*                                                                         *)
(* Numbers.  Instants are integers in milliseconds.  An f64 is kept as an  *)
(* exact fraction [n |-> numerator, d |-> denominator]; the code only ever *)
(* looks at such a value through ceil(), round() or a comparison, which    *)
(* are computed on the fraction.  The u64 byte counters are kept at        *)
(* CounterBits bits (arithmetic modulo 2^CounterBits).                     *)
(***************************************************************************)
EXTENDS Integers, Sequences, FiniteSets, TLC

VARIABLES
    overflow_checks, \* build profile: TRUE = integer overflow panics (debug)
    \* ---- main(): src/src/main.rs
    pc,              \* position of the main thread in main()
    stop,            \* the AtomicBool set by the SIGTERM/SIGINT handlers
    now,             \* the monotonic clock (ms)
    ifstats,         \* Vec<NetStats>
    idx,             \* position of the running  for dev in ...  loop
    iter,            \* number of loop iterations entered
    cpu,             \* this iteration's  cpu  (Vec<f64>), <<>> before the read
    mbps,            \* this iteration's  mbps (Vec<(u16, u16)>)
    mem,             \* this iteration's  mem  ratio: << >> before the read, << m >> after
    temperature,     \* this iteration's  temperature: << >> or << t >>
    calls,           \* display calls made in the current iteration, in order
    lcd,             \* the display: power state and count of power-offs
    sig_at,          \* history: the value of iter when the flag was set (-1: not set)
    read_err,        \* history: a telemetry read has returned an error
    \* ---- NetStats::mbps called repeatedly on one NetStats
    p_now, p_ns, p_res,
    \* ---- display_char applied to one value for rows 0, 1, 2
    q_value, q_out,
    \* ---- init_display / stop_display: src/src/lcd_display.rs
    d_pc, save_error, error, d_log, d_ret, d_i,
    \* ---- the bandwidth gauges of one interface, for the rows 0, 1, 2
    g_pair, g_out,
    \* ---- MockDisplay: src/src/mock_display.rs
    m_disp, m_n, m_last, m_panic

vars == << overflow_checks, pc, stop, now, ifstats, idx, iter, cpu, mbps, mem,
           temperature, calls, lcd, sig_at, read_err, p_now, p_ns, p_res, q_value, q_out,
           d_pc, save_error, error, d_log, d_ret, d_i,
           g_pair, g_out, m_disp, m_n, m_last, m_panic >>

mainVars == << pc, stop, now, ifstats, idx, iter, cpu, mbps, mem,
               temperature, calls, lcd, sig_at, read_err >>
pollVars == << p_now, p_ns, p_res >>
quantVars == << q_value, q_out >>
dispVars == << d_pc, save_error, error, d_log, d_ret, d_i >>
gaugeVars == << g_pair, g_out >>
mockVars == << m_disp, m_n, m_last, m_panic >>

\* what the actions of one component leave alone
notMain == << overflow_checks, pollVars, quantVars, dispVars, gaugeVars, mockVars >>
notPoll == << overflow_checks, mainVars, quantVars, dispVars, gaugeVars, mockVars >>
notQuant == << overflow_checks, mainVars, pollVars, dispVars, gaugeVars, mockVars >>
notDisp == << overflow_checks, mainVars, pollVars, quantVars, gaugeVars, mockVars >>
notGauge == << overflow_checks, mainVars, pollVars, quantVars, dispVars, mockVars >>
notMock == << overflow_checks, mainVars, pollVars, quantVars, dispVars, gaugeVars >>

NoValue == "none"

(***************************************************************************)
(* Bounds of the model.                                                    *)
(***************************************************************************)
\* width kept for the u64 byte counters
CounterBits == 26
\* polls made on the NetStats of the NetStats::mbps harness
MaxPolls == 4
\* iterations of the poll loop that are explored
MaxIter == 2
\* number of CPU cores the host reports
NumCores == 2
\* number of entries of NET_DEV_NAMES that are kept
NumIfaces == 1
\* time one NetStats::sample takes (ms); the clock is strictly monotonic
SampleMs == 1

(***************************************************************************)
(* Arithmetic helpers.                                                     *)
(***************************************************************************)
Min(a, b) == IF a < b THEN a ELSE b
Max(a, b) == IF a > b THEN a ELSE b

RECURSIVE Pow2(_)
Pow2(k) == IF k = 0 THEN 1 ELSE 2 * Pow2(k - 1)

\* u64::MAX at the modelled width
MAX_VALUE == Pow2(CounterBits) - 1

U16_MAX == 65535

\* f64::ceil() as u16: the cast saturates, NaN becomes 0
CeilU16(v) ==
    IF v.d = 0
    THEN (IF v.n = 0 THEN 0 ELSE U16_MAX)
    ELSE Min(U16_MAX, Max(0, (v.n + v.d - 1) \div v.d))

(***************************************************************************)
(* NetStats (main.rs:27-71).  A telemetry read is given as its outcome:    *)
(* [ok |-> FALSE] or [ok |-> TRUE, rx |-> bytes, tx |-> bytes].            *)
(***************************************************************************)
HISTORY_SECS == 60

\* NetStats::sample: the outcome of network_stats(), stamped Instant::now()
NetStats_sample(t, read) ==
    IF read.ok THEN [ok |-> TRUE, v |-> << t, read.rx, read.tx >>]
    ELSE [ok |-> FALSE]

\* NetStats::new
NetStats_new(name, t, read) ==
    LET s == NetStats_sample(t, read) IN
    IF s.ok THEN [ok |-> TRUE,
                  self |-> [name |-> name, last |-> s.v, buckets |-> << >>]]
    ELSE [ok |-> FALSE]

\* u64 subtraction  new - old : panics on overflow when overflow checks are
\* compiled in, wraps modulo 2^64 otherwise
SubU64(new, old, checks) ==
    IF new >= old THEN [panic |-> FALSE, v |-> new - old]
    ELSE IF checks THEN [panic |-> TRUE]
    ELSE [panic |-> FALSE, v |-> (new - old) % (MAX_VALUE + 1)]

\* bytes as f64 / dur * 8. / 1_000_000.  with dur = durMs / 1000 seconds
ToMbps(bytes, durMs) == [n |-> bytes * 8, d |-> durMs * 1000]

\* the  while let Some(..) = buckets.front()  loop of NetStats::mbps
PruneNever(buckets, t) == buckets
RECURSIVE PruneFront(_, _)
PruneFront(buckets, t) ==
    IF buckets = << >> THEN buckets
    ELSE IF (t - buckets[1][1]) < HISTORY_SECS * 1000 THEN buckets
    ELSE PruneFront(Tail(buckets), t)

\* (a failed sample answered with a zero rate and the stale state)
NetStats_mbps_zero_on_error(self, t, read, checks) ==
    [tag |-> "ok", self |-> self, val |-> << 0, 0 >>]

\* (the poll without the push_back of the new sample)
NetStats_mbps_no_push(self, t, read, checks) ==
    LET s == NetStats_sample(t, read) IN
    IF ~s.ok THEN [tag |-> "err", self |-> self]
    ELSE
    LET durMs == s.v[1] - self.last[1]
        drx == SubU64(s.v[2], self.last[2], checks)
        dtx == SubU64(s.v[3], self.last[3], checks)
    IN  IF drx.panic \/ dtx.panic THEN [tag |-> "panic", self |-> self]
        ELSE [tag |-> "ok",
              self |-> [self EXCEPT !.last = s.v,
                            !.buckets = PruneFront(self.buckets, s.v[1])],
              val |-> << CeilU16(ToMbps(drx.v, durMs)), CeilU16(ToMbps(dtx.v, durMs)) >>]

\* NetStats::mbps: tag is "ok", "err" (sample failed) or "panic"
NetStats_mbps(self, t, read, checks) ==
    LET s == NetStats_sample(t, read) IN
    IF ~s.ok THEN [tag |-> "err", self |-> self]
    ELSE
    LET durMs == s.v[1] - self.last[1]
        drx == SubU64(s.v[2], self.last[2], checks)
        dtx == SubU64(s.v[3], self.last[3], checks)
    IN  IF drx.panic \/ dtx.panic THEN [tag |-> "panic", self |-> self]
        ELSE
        LET rx_mbps == ToMbps(drx.v, durMs)
            tx_mbps == ToMbps(dtx.v, durMs)
            kept == PruneFront(self.buckets, s.v[1])
        IN  [tag |-> "ok",
             self |-> [self EXCEPT !.last = s.v,
                           !.buckets = Append(kept, << s.v[1], rx_mbps, tx_mbps >>)],
             val |-> << CeilU16(rx_mbps), CeilU16(tx_mbps) >>]


\* the two max() chains of main (main.rs:287-298); unwrap() of an empty
\* iterator panics
AllBuckets(ifs) ==
    UNION { { << i, j >> : j \in 1..Len(ifs[i].buckets) } : i \in 1..Len(ifs) }
MaxOf(S) == CHOOSE x \in S : \A y \in S : y <= x
max_rx_as_tx(ifs) ==
    LET S == { CeilU16(ifs[e[1]].buckets[e[2]][3]) : e \in AllBuckets(ifs) }
    IN  IF S = {} THEN [panic |-> TRUE] ELSE [panic |-> FALSE, v |-> MaxOf(S)]
max_rx_mbps(ifs) ==
    LET S == { CeilU16(ifs[e[1]].buckets[e[2]][2]) : e \in AllBuckets(ifs) }
    IN  IF S = {} THEN [panic |-> TRUE] ELSE [panic |-> FALSE, v |-> MaxOf(S)]
max_tx_mbps(ifs) ==
    LET S == { CeilU16(ifs[e[1]].buckets[e[2]][3]) : e \in AllBuckets(ifs) }
    IN  IF S = {} THEN [panic |-> TRUE] ELSE [panic |-> FALSE, v |-> MaxOf(S)]

(***************************************************************************)
(* display_char (main.rs:166-186).  value is a fraction; the result is     *)
(* [panic |-> TRUE] when an assert! fails, else [panic |-> FALSE, v |-> u8]*)
(***************************************************************************)
SPACE == 32
PIXEL_UNITS == 24
GLYPH_ROWS == 8

\* (the quantizer taking the floor of the 24 units)
display_char_floor(value, row) ==
    LET quantized == (value.n * PIXEL_UNITS) \div value.d
        r == 2 - row
        pixels == IF quantized \div GLYPH_ROWS > r THEN GLYPH_ROWS
                  ELSE IF quantized \div GLYPH_ROWS < r THEN 0
                  ELSE quantized - GLYPH_ROWS * r
    IN  [panic |-> FALSE, v |-> IF pixels = 0 THEN SPACE ELSE pixels - 1]
\* (the quantizer without the row flip)
display_char_top_down(value, row) ==
    LET quantized == (value.n * PIXEL_UNITS + value.d - 1) \div value.d
        pixels == IF quantized \div GLYPH_ROWS > row THEN GLYPH_ROWS
                  ELSE IF quantized \div GLYPH_ROWS < row THEN 0
                  ELSE quantized - GLYPH_ROWS * row
    IN  [panic |-> FALSE, v |-> IF pixels = 0 THEN SPACE ELSE pixels - 1]
display_char(value, row) ==
    IF value.d = 0 \/ ~(value.n >= 0) \/ ~(value.n <= value.d) \/ ~(row < 3)
    THEN [panic |-> TRUE]
    ELSE
    LET quantized == Min(255, (value.n * PIXEL_UNITS + value.d - 1) \div value.d)
        r == 2 - row
        pixels == IF quantized \div GLYPH_ROWS > r THEN GLYPH_ROWS
                  ELSE IF quantized \div GLYPH_ROWS < r THEN 0
                  ELSE quantized - GLYPH_ROWS * r
    IN  [panic |-> FALSE, v |-> IF pixels = 0 THEN SPACE ELSE pixels - 1]

(***************************************************************************)
(* Text formatting: strings are sequences of bytes.                        *)
(***************************************************************************)
RECURSIVE Digits(_)
Digits(k) ==
    IF k < 10 THEN << 48 + k >> ELSE Append(Digits(k \div 10), 48 + (k % 10))

\* Display of an integer: a minus sign, then the decimal digits
IntStr(k) == IF k < 0 THEN << 45 >> \o Digits(0 - k) ELSE Digits(k)

RECURSIVE Spaces(_)
Spaces(k) == IF k <= 0 THEN << >> ELSE << SPACE >> \o Spaces(k - 1)

\* "{:>w}": right-aligned in w cells, never truncated
PadLeft(str, w) == Spaces(w - Len(str)) \o str

\* f32::round(): nearest integer, halves away from zero
Round(v) ==
    IF v.n >= 0 THEN (2 * v.n + v.d) \div (2 * v.d)
    ELSE 0 - ((2 * (0 - v.n) + v.d) \div (2 * v.d))

STR_CPU == << 99, 112, 117, 32 >>      \* "cpu "
STR_C == << 67, 32 >>                  \* "C "
STR_MEM == << 32, 109, 101, 109 >>     \* " mem"
STR_BAR_SPACE == << 124, 32 >>         \* "| "
BAR == 124                             \* b'|'
SLASH == 47                            \* '/'
DEGREE == 223                          \* 0xdf

(***************************************************************************)
(* Display calls (the lcd crate's Display, or MockDisplay).                *)
(***************************************************************************)
Position(col, row) == [op |-> "position", col |-> col, row |-> row]
Write(byte) == [op |-> "write", s |-> << byte >>]
PrintStr(str) == [op |-> "print", s |-> str]

\* the bytes a sequence of calls puts on the display, in order
RECURSIVE Bytes(_)
Bytes(cs) ==
    IF cs = << >> THEN << >>
    ELSE (IF cs[1].op = "position" THEN << >> ELSE cs[1].s) \o Bytes(Tail(cs))

(***************************************************************************)
(* One gauge row of the frame (main.rs:260-279).                           *)
(***************************************************************************)
RECURSIVE CoreCalls(_, _)
CoreCalls(cores, row) ==
    IF cores = << >> THEN << >>
    ELSE << Write(display_char(cores[1], row).v) >> \o CoreCalls(Tail(cores), row)

\* (rx as f64 / 1000.).clamp(0., 1.)
LINK_MBPS == 1000
\* (the ratio without the clamp)
Ratio_unclamped(m) == [n |-> m, d |-> LINK_MBPS]
Ratio(m) == [n |-> Min(Max(m, 0), LINK_MBPS), d |-> LINK_MBPS]

\* (the rx glyph written before the tx glyph)
RECURSIVE NetCalls_rx_first(_, _)
NetCalls_rx_first(ms, row) ==
    IF ms = << >> THEN << >>
    ELSE << Write(display_char(Ratio(ms[1][1]), row).v),
            Write(display_char(Ratio(ms[1][2]), row).v) >>
            \o NetCalls_rx_first(Tail(ms), row)

RECURSIVE NetCalls(_, _)
NetCalls(ms, row) ==
    IF ms = << >> THEN << >>
    ELSE << Write(display_char(Ratio(ms[1][2]), row).v),
            Write(display_char(Ratio(ms[1][1]), row).v) >> \o NetCalls(Tail(ms), row)

GaugePanics(cores, ms, m, row) ==
    \/ \E i \in 1..Len(cores) : display_char(cores[i], row).panic
    \/ \E i \in 1..Len(ms) : \/ display_char(Ratio(ms[i][1]), row).panic
                             \/ display_char(Ratio(ms[i][2]), row).panic
    \/ display_char(m, row).panic

GaugeRow(cores, ms, m, row) ==
    << Position(0, row) >> \o CoreCalls(cores, row) \o << Write(BAR) >>
       \o NetCalls(ms, row) \o << PrintStr(STR_BAR_SPACE) >>
       \o << Write(display_char(m, row).v) >>

(***************************************************************************)
(* The text row (main.rs:281-301).                                         *)
(***************************************************************************)
TextRow(temp, ifs) ==
    << Position(0, 3), PrintStr(STR_CPU),
       PrintStr(PadLeft(IntStr(Round(temp)), 2)),
       Write(DEGREE), PrintStr(STR_C),
       PrintStr(PadLeft(IntStr(max_tx_mbps(ifs).v), 3) \o << SLASH >>
                  \o PadLeft(IntStr(max_rx_mbps(ifs).v), 3)),
       PrintStr(STR_MEM) >>

(***************************************************************************)
(* Telemetry readings the model draws from.                                *)
(***************************************************************************)
ReadFailed == [ok |-> FALSE]
Counters(rx, tx) == [ok |-> TRUE, rx |-> rx, tx |-> tx]

\* network_stats() at start-up and in the loop (byte counters)
NewReads == { ReadFailed, Counters(0, 0) }
LoopReads == { ReadFailed, Counters(1000, 200), Counters(2250, 3125200) }

\* idle fraction of a core over the measurement interval
IdleFractions == { [n |-> 1, d |-> 1], [n |-> 0, d |-> 1] }
CoreIdles == [1..NumCores -> IdleFractions]

\* memory(): total and MemAvailable, in bytes
MIB == 1048576
MemReads == { ReadFailed,
              [ok |-> TRUE, total |-> 1024 * MIB, avail |-> 1024 * MIB],
              [ok |-> TRUE, total |-> 1024 * MIB, avail |-> 0],
              [ok |-> TRUE, total |-> 1024 * MIB, avail |-> 256 * MIB + 524288] }

\* cpu_temp(): degrees (45.5 and 100.4)
TempReads == { ReadFailed,
               [ok |-> TRUE, v |-> [n |-> 455, d |-> 10]],
               [ok |-> TRUE, v |-> [n |-> 1004, d |-> 10]] }

\* how long thread::sleep(500 ms) may take (ms): at least the 500 asked for
SLEEP_MS == 500
SleepTimes == { SLEEP_MS, HISTORY_SECS * 1000 }

(***************************************************************************)
(* CPUStats::get_load (main.rs:84-94) and avail_mem_mib (main.rs:159-164). *)
(***************************************************************************)
\* result.push(1. - core.idle as f64) for every core
get_load(idles) ==
    [i \in 1..Len(idles) |-> [n |-> idles[i].d - idles[i].n, d |-> idles[i].d]]

avail_mem_mib(read) ==
    IF read.ok THEN [ok |-> TRUE, avail |-> read.avail \div MIB,
                     total |-> read.total \div MIB]
    ELSE [ok |-> FALSE]

(***************************************************************************)
(* The custom glyphs (main.rs:219-223, lcd_display.rs:55-59): bits is      *)
(* filled from the bottom, one more pixel row per glyph.                   *)
(***************************************************************************)
GLYPH_COUNT == 8
PIXEL_ROW == 31   \* 0b11111
NoGlyphs == [g \in 1..GLYPH_COUNT |-> << >>]

\* (bits cleared for every glyph: one pixel row each)
RECURSIVE upload_characters_fresh(_, _, _)
upload_characters_fresh(i, bits, glyphs) ==
    IF i = GLYPH_COUNT THEN glyphs
    ELSE LET b == [[r \in 1..GLYPH_ROWS |-> 0] EXCEPT ![(7 - i) + 1] = PIXEL_ROW]
         IN  upload_characters_fresh(i + 1, b, [glyphs EXCEPT ![i + 1] = b])

RECURSIVE upload_characters(_, _, _)
upload_characters(i, bits, glyphs) ==
    IF i = GLYPH_COUNT THEN glyphs
    ELSE LET b == [bits EXCEPT ![(7 - i) + 1] = PIXEL_ROW]
         IN  upload_characters(i + 1, b, [glyphs EXCEPT ![i + 1] = b])

ZeroBits == [r \in 1..GLYPH_ROWS |-> 0]

(***************************************************************************)
(* main() (main.rs:208-322), the build without the "mock" feature.         *)
(* pc: "open" -> "signals" -> "new_if" -> "new_cpu" -> "check" ->          *)
(*     "cpu" -> "net" -> "mem" -> "temp" -> "row" -> "text" -> "sleep" ->  *)
(*     "check" ... -> "shutdown" -> "done"; "failed" is main returning an  *)
(*     Err, "panicked" a panic.                                            *)
(***************************************************************************)
Terminal == { "done", "failed", "panicked" }

NET_DEV_NAMES ==
    SubSeq(<< "ether0", "ether1", "ether2", "ether3", "ether4", "ether5" >>,
           1, NumIfaces)

MainInit ==
    /\ pc = "open"
    /\ stop = FALSE
    /\ now = 0
    /\ ifstats = << >>
    /\ idx = 0
    /\ iter = 0
    /\ cpu = << >>
    /\ mbps = << >>
    /\ mem = << >>
    /\ temperature = << >>
    /\ calls = << >>
    /\ lcd = [power |-> "off", backlight |-> FALSE, offs |-> 0, glyphs |-> NoGlyphs]
    /\ sig_at = -1
    /\ read_err = FALSE

\* main.rs:210-226: open the I2C device, init, display on, upload the glyphs
OpenDisplay ==
    /\ pc = "open"
    /\ \E ok \in BOOLEAN :
         IF ok
         THEN /\ lcd' = [lcd EXCEPT !.power = "on", !.backlight = TRUE,
                            !.glyphs = upload_characters(0, ZeroBits, NoGlyphs)]
              /\ pc' = "signals"
         ELSE /\ pc' = "failed"
              /\ UNCHANGED lcd
    /\ UNCHANGED << stop, now, ifstats, idx, iter, cpu, mbps, mem, temperature, calls >>
    /\ UNCHANGED notMain
    /\ UNCHANGED << sig_at, read_err >>

\* main.rs:231-235: register the SIGTERM and SIGINT flag handlers
RegisterSignals ==
    /\ pc = "signals"
    /\ \E ok \in BOOLEAN : pc' = IF ok THEN "new_if" ELSE "failed"
    /\ UNCHANGED << stop, now, ifstats, idx, iter, cpu, mbps, mem, temperature,
                    calls, lcd >>
    /\ UNCHANGED notMain
    /\ UNCHANGED << sig_at, read_err >>

\* a SIGTERM or SIGINT arrives: the handler stores true into the flag
Signal ==
    /\ pc \notin (Terminal \cup { "open", "signals" })
    /\ ~stop
    /\ stop' = TRUE
    /\ sig_at' = iter
    /\ UNCHANGED read_err
    /\ UNCHANGED << pc, now, ifstats, idx, iter, cpu, mbps, mem, temperature,
                    calls, lcd >>
    /\ UNCHANGED notMain

\* main.rs:237-240: one NetStats::new per name
NewNetStats ==
    /\ pc = "new_if"
    /\ \E read \in NewReads :
         LET r == NetStats_new(NET_DEV_NAMES[idx + 1], now + SampleMs, read) IN
         /\ read_err' = (read_err \/ ~read.ok)
         /\ IF r.ok
            THEN /\ ifstats' = Append(ifstats, r.self)
                 /\ idx' = IF idx + 1 = Len(NET_DEV_NAMES) THEN 0 ELSE idx + 1
                 /\ pc' = IF idx + 1 = Len(NET_DEV_NAMES) THEN "new_cpu" ELSE "new_if"
            ELSE /\ pc' = "failed"
                 /\ UNCHANGED << ifstats, idx >>
    /\ now' = now + SampleMs
    /\ UNCHANGED << stop, iter, cpu, mbps, mem, temperature, calls, lcd, sig_at >>
    /\ UNCHANGED notMain

\* (a failed first CPU-load read that is ignored)
NewCpuStats_ignores_error ==
    /\ pc = "new_cpu"
    /\ \E ok \in BOOLEAN :
         /\ read_err' = (read_err \/ ~ok)
         /\ pc' = "check"
    /\ UNCHANGED << stop, now, ifstats, idx, iter, cpu, mbps, mem, temperature,
                    calls, lcd, sig_at >>
    /\ UNCHANGED notMain

\* main.rs:242: CPUStats::new
NewCpuStats ==
    /\ pc = "new_cpu"
    /\ \E ok \in BOOLEAN :
         /\ read_err' = (read_err \/ ~ok)
         /\ pc' = IF ok THEN "check" ELSE "failed"
    /\ UNCHANGED << stop, now, ifstats, idx, iter, cpu, mbps, mem, temperature,
                    calls, lcd, sig_at >>
    /\ UNCHANGED notMain

\* (a loop head that never looks at the flag)
LoopCheck_ignores_stop ==
    /\ pc = "check"
    /\ iter < MaxIter
    /\ pc' = "cpu"
    /\ iter' = iter + 1
    /\ UNCHANGED << stop, now, ifstats, idx, cpu, mbps, mem, temperature, calls, lcd >>
    /\ UNCHANGED << sig_at, read_err >>
    /\ UNCHANGED notMain

\* main.rs:244: while !stop.load(SeqCst)
LoopCheck ==
    /\ pc = "check"
    /\ IF stop
       THEN /\ pc' = "shutdown"
            /\ UNCHANGED iter
       ELSE /\ iter < MaxIter
            /\ pc' = "cpu"
            /\ iter' = iter + 1
    /\ UNCHANGED << stop, now, ifstats, idx, cpu, mbps, mem, temperature, calls, lcd >>
    /\ UNCHANGED notMain
    /\ UNCHANGED << sig_at, read_err >>

\* (a failed read that leaves the loop through the shutdown block)
ReadCpu_fail_shuts_down ==
    /\ pc = "cpu"
    /\ \/ /\ pc' = "shutdown"
          /\ read_err' = TRUE
          /\ UNCHANGED cpu
       \/ \E idles \in CoreIdles :
            /\ cpu' = get_load(idles)
            /\ pc' = "net"
            /\ UNCHANGED read_err
    /\ UNCHANGED << stop, now, ifstats, idx, iter, mbps, mem, temperature, calls,
                    lcd, sig_at >>
    /\ UNCHANGED notMain

\* main.rs:246: cpustats.get_load()?  (cpu_load() or done() may fail)
ReadCpu ==
    /\ pc = "cpu"
    /\ \/ /\ pc' = "failed"
          /\ read_err' = TRUE
          /\ UNCHANGED cpu
       \/ \E idles \in CoreIdles :
            /\ cpu' = get_load(idles)
            /\ pc' = "net"
            /\ UNCHANGED read_err
    /\ UNCHANGED << stop, now, ifstats, idx, iter, mbps, mem, temperature, calls,
                    lcd, sig_at >>
    /\ UNCHANGED notMain

\* main.rs:248-251: mbps.push(dev.mbps()?) for every dev
ReadNet ==
    /\ pc = "net"
    /\ \E read \in LoopReads :
         LET r == NetStats_mbps(ifstats[idx + 1], now + SampleMs, read, overflow_checks) IN
         /\ read_err' = (read_err \/ ~read.ok)
         /\ CASE r.tag = "ok" ->
                   /\ ifstats' = [ifstats EXCEPT ![idx + 1] = r.self]
                   /\ mbps' = Append(mbps, r.val)
                   /\ idx' = IF idx + 1 = Len(ifstats) THEN 0 ELSE idx + 1
                   /\ pc' = IF idx + 1 = Len(ifstats) THEN "mem" ELSE "net"
              [] r.tag = "err" ->
                   /\ pc' = "failed"
                   /\ UNCHANGED << ifstats, mbps, idx >>
              [] r.tag = "panic" ->
                   /\ pc' = "panicked"
                   /\ UNCHANGED << ifstats, mbps, idx >>
    /\ now' = now + SampleMs
    /\ UNCHANGED << stop, iter, cpu, mem, temperature, calls, lcd, sig_at >>
    /\ UNCHANGED notMain

\* main.rs:253-255: avail_mem_mib()? and the used ratio
ReadMem ==
    /\ pc = "mem"
    /\ \E read \in MemReads :
         LET r == avail_mem_mib(read)
             used == SubU64(r.total, r.avail, overflow_checks)
         IN  /\ read_err' = (read_err \/ ~read.ok)
             /\ IF ~r.ok
                THEN /\ pc' = "failed"
                     /\ UNCHANGED mem
                ELSE IF used.panic
                THEN /\ pc' = "panicked"
                     /\ UNCHANGED mem
                ELSE /\ mem' = << [n |-> used.v, d |-> r.total] >>
                     /\ pc' = "temp"
    /\ UNCHANGED << stop, now, ifstats, idx, iter, cpu, mbps, temperature, calls,
                    lcd, sig_at >>
    /\ UNCHANGED notMain

\* main.rs:257-258: cpu_temp()?
ReadTemp ==
    /\ pc = "temp"
    /\ \E read \in TempReads :
         /\ read_err' = (read_err \/ ~read.ok)
         /\ IF read.ok
            THEN /\ temperature' = << read.v >>
                 /\ pc' = "row"
            ELSE /\ pc' = "failed"
                 /\ UNCHANGED temperature
    /\ UNCHANGED << stop, now, ifstats, idx, iter, cpu, mbps, mem, calls, lcd, sig_at >>
    /\ UNCHANGED notMain

\* main.rs:260-279: one pass of  for row in 0 .. 3
RenderRow ==
    /\ pc = "row"
    /\ IF GaugePanics(cpu, mbps, mem[1], idx)
       THEN /\ pc' = "panicked"
            /\ UNCHANGED << calls, idx >>
       ELSE /\ calls' = calls \o GaugeRow(cpu, mbps, mem[1], idx)
            /\ idx' = IF idx = 2 THEN 0 ELSE idx + 1
            /\ pc' = IF idx = 2 THEN "text" ELSE "row"
    /\ UNCHANGED << stop, now, ifstats, iter, cpu, mbps, mem, temperature, lcd >>
    /\ UNCHANGED notMain
    /\ UNCHANGED << sig_at, read_err >>

\* (the text row followed by the next loop test, without the sleep)
RenderText_no_sleep ==
    /\ pc = "text"
    /\ calls' = calls \o TextRow(temperature[1], ifstats)
    /\ pc' = "check"
    /\ UNCHANGED << stop, now, ifstats, idx, iter, cpu, mbps, mem, temperature, lcd >>
    /\ UNCHANGED notMain
    /\ UNCHANGED << sig_at, read_err >>

\* main.rs:281-301: the text row
RenderText ==
    /\ pc = "text"
    /\ IF max_rx_mbps(ifstats).panic \/ max_tx_mbps(ifstats).panic
       THEN /\ pc' = "panicked"
            /\ UNCHANGED calls
       ELSE /\ calls' = calls \o TextRow(temperature[1], ifstats)
            /\ pc' = "sleep"
    /\ UNCHANGED << stop, now, ifstats, idx, iter, cpu, mbps, mem, temperature, lcd >>
    /\ UNCHANGED notMain
    /\ UNCHANGED << sig_at, read_err >>

\* main.rs:310-311: thread::sleep; the iteration's locals are dropped
Sleep ==
    /\ pc = "sleep"
    /\ \E d \in SleepTimes : now' = now + d
    /\ cpu' = << >>
    /\ mbps' = << >>
    /\ mem' = << >>
    /\ temperature' = << >>
    /\ calls' = << >>
    /\ pc' = "check"
    /\ UNCHANGED << stop, ifstats, idx, iter, lcd >>
    /\ UNCHANGED notMain
    /\ UNCHANGED << sig_at, read_err >>

\* main.rs:313-321: display off, backlight off, Ok(())
Shutdown ==
    /\ pc = "shutdown"
    /\ lcd' = [lcd EXCEPT !.power = "off", !.backlight = FALSE, !.offs = @ + 1]
    /\ pc' = "done"
    /\ UNCHANGED << stop, now, ifstats, idx, iter, cpu, mbps, mem, temperature, calls >>
    /\ UNCHANGED notMain
    /\ UNCHANGED << sig_at, read_err >>

MainStep ==
    \/ OpenDisplay \/ RegisterSignals \/ NewNetStats \/ NewCpuStats
    \/ LoopCheck \/ ReadCpu \/ ReadNet \/ ReadMem \/ ReadTemp
    \/ RenderRow \/ RenderText \/ Sleep \/ Shutdown

(***************************************************************************)
(* NetStats::mbps called up to MaxPolls times on one NetStats, at          *)
(* increasing instants.  p_res keeps the arguments and the outcome of the  *)
(* last call.                                                              *)
(***************************************************************************)
PollGaps == { 10000, 20000, 35000 }
PollReads == { ReadFailed, Counters(12500000, 2500000),
               Counters(13750000, 8750000), Counters(18750000, 12500000) }

PollInit ==
    /\ p_now = 0
    /\ p_ns = NetStats_new("ether0", 0, Counters(0, 0)).self
    /\ p_res = [tag |-> "new", n |-> 0]

PollMbps ==
    /\ p_res.tag \in { "new", "ok" }
    /\ p_res.n < MaxPolls
    /\ \E gap \in PollGaps, read \in PollReads :
         LET r == NetStats_mbps(p_ns, p_now + gap, read, overflow_checks) IN
         /\ p_now' = p_now + gap
         /\ p_ns' = r.self
         /\ p_res' = [tag |-> r.tag, n |-> p_res.n + 1, prev |-> p_ns.last,
                      read |-> read,
                      val |-> IF r.tag = "ok" THEN r.val ELSE << >>]
    /\ UNCHANGED notPoll

(***************************************************************************)
(* display_char applied to one value for the rows 0, 1, 2 in turn, as the  *)
(* row loop of main does.                                                  *)
(***************************************************************************)
QuantValues ==
    { [n |-> k, d |-> 24] : k \in -1..25 } \cup { [n |-> k, d |-> 1000] : k \in -1..1001 }

QuantInit ==
    /\ q_value \in QuantValues
    /\ q_out = << >>

QuantRow ==
    /\ Len(q_out) < 3
    /\ q_out' = Append(q_out, display_char(q_value, Len(q_out)))
    /\ UNCHANGED q_value
    /\ UNCHANGED notQuant

(***************************************************************************)
(* init_display and stop_display (lcd_display.rs:16-70), followed by the   *)
(* caller's writes to the display it got.  Every bus operation may report  *)
(* an I/O error to the handler installed with on_error.  d_log lists the   *)
(* handler's invocations: the error, the step that was running, and        *)
(* whether the handler printed it (eprintln!) or saved it in the cell.     *)
(***************************************************************************)
\* I/O errors injected in one run
MaxErrors == 2
\* bus writes display.init() makes
InitWrites == 2
\* writes the caller makes to the display it got
MaxWrites == 1

Errnos == { "EREMOTEIO", "EIO" }

\* the closure given to ErrorHandling::Custom (lcd_display.rs:27-33)
handler_always_logs(save, cell, e) == [error |-> cell, logged |-> TRUE]
handler(save, cell, e) ==
    IF save THEN [error |-> e, logged |-> FALSE]
    ELSE [error |-> cell, logged |-> TRUE]

DispInit ==
    /\ d_pc = "open"
    /\ save_error = TRUE
    /\ error = NoValue
    /\ d_log = << >>
    /\ d_ret = << >>
    /\ d_i = 0

\* one bus operation of step  at : it succeeds, or reports an error
BusOp(at) ==
    \/ UNCHANGED << error, d_log >>
    \/ /\ Len(d_log) < MaxErrors
       /\ \E e \in Errnos :
            LET h == handler(save_error, error, e) IN
            /\ error' = h.error
            /\ d_log' = Append(d_log, [e |-> e, at |-> at, logged |-> h.logged])

\* lcd_display.rs:17-34: open the device, create the cells, install the handler
DOpen ==
    /\ d_pc = "open"
    /\ \/ /\ d_pc' = "returned"
          /\ d_ret' = << [ok |-> FALSE, e |-> "open"] >>
       \/ /\ d_pc' = "init"
          /\ UNCHANGED d_ret
    /\ UNCHANGED << save_error, error, d_log, d_i >>
    /\ UNCHANGED notDisp

\* lcd_display.rs:37: display.init(..), one bus write at a time
DInit ==
    /\ d_pc = "init"
    /\ BusOp("init")
    /\ d_i' = IF d_i + 1 = InitWrites THEN 0 ELSE d_i + 1
    /\ d_pc' = IF d_i + 1 = InitWrites THEN "check" ELSE "init"
    /\ UNCHANGED << save_error, d_ret >>
    /\ UNCHANGED notDisp

\* lcd_display.rs:39-45: return the saved error, or switch to printing
DCheck ==
    /\ d_pc = "check"
    /\ IF error # NoValue
       THEN /\ d_ret' = << [ok |-> FALSE, e |-> error] >>
            /\ error' = NoValue
            /\ d_pc' = "returned"
            /\ UNCHANGED save_error
       ELSE /\ save_error' = FALSE
            /\ d_pc' = "display_on"
            /\ UNCHANGED << error, d_ret >>
    /\ UNCHANGED << d_log, d_i >>
    /\ UNCHANGED notDisp

\* lcd_display.rs:47-50: display on
DDisplayOn ==
    /\ d_pc = "display_on"
    /\ BusOp("display_on")
    /\ d_pc' = "upload"
    /\ UNCHANGED << save_error, d_ret, d_i >>
    /\ UNCHANGED notDisp

\* lcd_display.rs:55-61: upload_character for i in 0 .. 8, then Ok(display)
DUpload ==
    /\ d_pc = "upload"
    /\ BusOp("upload")
    /\ d_i' = IF d_i + 1 = GLYPH_COUNT THEN 0 ELSE d_i + 1
    /\ d_pc' = IF d_i + 1 = GLYPH_COUNT THEN "ready" ELSE "upload"
    /\ d_ret' = IF d_i + 1 = GLYPH_COUNT THEN << [ok |-> TRUE] >> ELSE d_ret
    /\ UNCHANGED save_error
    /\ UNCHANGED notDisp

\* the caller writes to the display
DWrite ==
    /\ d_pc = "ready"
    /\ d_i < MaxWrites
    /\ BusOp("write")
    /\ d_i' = d_i + 1
    /\ UNCHANGED << d_pc, save_error, d_ret >>
    /\ UNCHANGED notDisp

\* lcd_display.rs:64-70: stop_display
DStop ==
    /\ d_pc = "ready"
    /\ BusOp("stop")
    /\ d_pc' = "stopped"
    /\ UNCHANGED << save_error, d_ret, d_i >>
    /\ UNCHANGED notDisp

(***************************************************************************)
(* The bandwidth gauges of one interface (main.rs:269-274), for a pair     *)
(* (rx, tx) as NetStats::mbps returns it: the two ratios given to          *)
(* display_char and the two writes, for the rows 0, 1, 2 in turn.          *)
(***************************************************************************)
GaugeMbps == { 0, 1, 2, 10, 41, 42, 100, 500, 999, 1000, 1001, U16_MAX }

GaugeInit ==
    /\ g_pair \in GaugeMbps \X GaugeMbps
    /\ g_out = << >>

GaugeNet ==
    /\ Len(g_out) < 3
    /\ LET row == Len(g_out)
           rx == Ratio(g_pair[1])
           tx == Ratio(g_pair[2])
           panic == display_char(tx, row).panic \/ display_char(rx, row).panic
       IN  g_out' = Append(g_out,
                      [rx |-> rx, tx |-> tx, panic |-> panic,
                       calls |-> IF panic THEN << >>
                                 ELSE NetCalls(<< g_pair >>, row)])
    /\ UNCHANGED g_pair
    /\ UNCHANGED notGauge

(***************************************************************************)
(* MockDisplay (mock_display.rs:9-59; the same code is in main.rs:97-149). *)
(* A char is kept as its code point.  lines and pos are indexed from 0.    *)
(***************************************************************************)
MOCK_ROWS == 4
MOCK_COLS == 20
BLOCK_BASE == 9600     \* 0x2580
DEGREE_CHAR == 176     \* U+00B0

\* MockDisplay::new
MockDisplay_new ==
    [lines |-> [r \in 0..(MOCK_ROWS - 1) |-> [c \in 0..(MOCK_COLS - 1) |-> SPACE]],
     pos |-> << 0, 0 >>]

\* MockDisplay::position
MockDisplay_position(self, col, row) ==
    [self EXCEPT !.pos = << Min(row, 3), Min(col, 19) >>]

\* the match of MockDisplay::write
MockChar(byte) ==
    CASE byte = 0 -> SPACE
      [] byte \in 1..7 -> BLOCK_BASE + byte
      [] byte = DEGREE -> DEGREE_CHAR
      [] OTHER -> byte

\* (the write without the wrap from the last row to row 0)
MockDisplay_write_no_row_wrap(self, byte) ==
    LET r == self.pos[1]
        c == self.pos[2]
    IN  IF r \notin 0..(MOCK_ROWS - 1) \/ c \notin 0..(MOCK_COLS - 1)
        THEN [panic |-> TRUE, self |-> self]
        ELSE [panic |-> FALSE,
              self |-> [lines |-> [self.lines EXCEPT ![r][c] = MockChar(byte)],
                        pos |-> IF c + 1 = MOCK_COLS THEN << r + 1, 0 >>
                                ELSE << r, c + 1 >>]]

\* MockDisplay::write: [panic |-> TRUE] when the index is out of bounds
MockDisplay_write(self, byte) ==
    LET r == self.pos[1]
        c == self.pos[2]
    IN  IF r \notin 0..(MOCK_ROWS - 1) \/ c \notin 0..(MOCK_COLS - 1)
        THEN [panic |-> TRUE, self |-> self]
        ELSE
        LET lines == [self.lines EXCEPT ![r][c] = MockChar(byte)]
            c1 == c + 1
            r2 == IF c1 = MOCK_COLS THEN r + 1 ELSE r
            c2 == IF c1 = MOCK_COLS THEN 0 ELSE c1
            r3 == IF r2 = MOCK_ROWS THEN 0 ELSE r2
        IN  [panic |-> FALSE, self |-> [lines |-> lines, pos |-> << r3, c2 >>]]

\* MockDisplay::print: one write per byte
RECURSIVE MockDisplay_print(_, _)
MockDisplay_print(self, str) ==
    IF str = << >> THEN [panic |-> FALSE, self |-> self]
    ELSE LET w == MockDisplay_write(self, str[1])
         IN  IF w.panic THEN w ELSE MockDisplay_print(w.self, Tail(str))

\* calls made on one MockDisplay
MaxMockOps == 3
MockPositions ==
    { << 0, 0 >>, << 19, 0 >>, << 0, 3 >>, << 19, 3 >>, << 20, 4 >>, << 255, 255 >> }
MockBytes == (0..7) \cup { SPACE, 65, DEGREE }
MockStrings == { STR_BAR_SPACE, STR_MEM }

MockInit ==
    /\ m_disp = MockDisplay_new
    /\ m_n = 0
    /\ m_last = [op |-> "new", arg |-> << >>, before |-> MockDisplay_new]
    /\ m_panic = FALSE

MockPosition ==
    /\ ~m_panic /\ m_n < MaxMockOps
    /\ \E p \in MockPositions :
         /\ m_disp' = MockDisplay_position(m_disp, p[1], p[2])
         /\ m_last' = [op |-> "position", arg |-> p, before |-> m_disp]
    /\ m_n' = m_n + 1
    /\ UNCHANGED m_panic
    /\ UNCHANGED notMock

MockWrite ==
    /\ ~m_panic /\ m_n < MaxMockOps
    /\ \E b \in MockBytes :
         LET w == MockDisplay_write(m_disp, b) IN
         /\ m_disp' = w.self
         /\ m_panic' = w.panic
         /\ m_last' = [op |-> "write", arg |-> << b >>, before |-> m_disp]
    /\ m_n' = m_n + 1
    /\ UNCHANGED notMock

MockPrint ==
    /\ ~m_panic /\ m_n < MaxMockOps
    /\ \E str \in MockStrings :
         LET w == MockDisplay_print(m_disp, str) IN
         /\ m_disp' = w.self
         /\ m_panic' = w.panic
         /\ m_last' = [op |-> "print", arg |-> str, before |-> m_disp]
    /\ m_n' = m_n + 1
    /\ UNCHANGED notMock

(***************************************************************************)
(* Specifications.  Each one runs one component; the variables of the      *)
(* others stay at their initial values.                                    *)
(***************************************************************************)
PollIdle == p_now = 0 /\ p_ns = NoValue /\ p_res = NoValue
QuantIdle == q_value = NoValue /\ q_out = << >>
MainIdle ==
    /\ pc = "idle" /\ stop = FALSE /\ now = 0 /\ ifstats = << >> /\ idx = 0
    /\ iter = 0 /\ cpu = << >> /\ mbps = << >> /\ mem = << >>
    /\ temperature = << >> /\ calls = << >> /\ lcd = NoValue
    /\ sig_at = -1 /\ read_err = FALSE
DispIdle ==
    /\ d_pc = "idle" /\ save_error = TRUE /\ error = NoValue /\ d_log = << >>
    /\ d_ret = << >> /\ d_i = 0
GaugeIdle == g_pair = << >> /\ g_out = << >>
MockIdle == m_disp = NoValue /\ m_n = 0 /\ m_last = NoValue /\ m_panic = FALSE

\* the poll loop, with signals arriving at any time
Init ==
    /\ overflow_checks \in BOOLEAN
    /\ MainInit /\ PollIdle /\ QuantIdle /\ DispIdle /\ GaugeIdle /\ MockIdle
Next ==
    \/ OpenDisplay \/ RegisterSignals \/ NewNetStats \/ NewCpuStats
    \/ LoopCheck \/ ReadCpu \/ ReadNet \/ ReadMem \/ ReadTemp
    \/ RenderRow \/ RenderText \/ Sleep \/ Shutdown
    \/ Signal
Spec == Init /\ [][Next]_vars

\* the main thread keeps running until main returns or panics
FairSpec == Spec /\ WF_vars(MainStep)

\* NetStats::mbps on its own
InitPoll ==
    /\ overflow_checks \in BOOLEAN
    /\ PollInit /\ MainIdle /\ QuantIdle /\ DispIdle /\ GaugeIdle /\ MockIdle
NextPoll == PollMbps
PollSpec == InitPoll /\ [][NextPoll]_vars

\* display_char on its own
InitQuant ==
    /\ overflow_checks = FALSE
    /\ QuantInit /\ MainIdle /\ PollIdle /\ DispIdle /\ GaugeIdle /\ MockIdle
NextQuant == QuantRow
QuantSpec == InitQuant /\ [][NextQuant]_vars

\* init_display, the caller's writes, stop_display
InitDisp ==
    /\ overflow_checks = FALSE
    /\ DispInit /\ MainIdle /\ PollIdle /\ QuantIdle /\ GaugeIdle /\ MockIdle
NextDisp == DOpen \/ DInit \/ DCheck \/ DDisplayOn \/ DUpload \/ DWrite \/ DStop
DispSpec == InitDisp /\ [][NextDisp]_vars

\* the bandwidth gauges on their own
InitGauge ==
    /\ overflow_checks = FALSE
    /\ GaugeInit /\ MainIdle /\ PollIdle /\ QuantIdle /\ DispIdle /\ MockIdle
NextGauge == GaugeNet
GaugeSpec == InitGauge /\ [][NextGauge]_vars

\* MockDisplay on its own
InitMock ==
    /\ overflow_checks = FALSE
    /\ MockInit /\ MainIdle /\ PollIdle /\ QuantIdle /\ DispIdle /\ GaugeIdle
NextMock == MockPosition \/ MockWrite \/ MockPrint
MockSpec == InitMock /\ [][NextMock]_vars


(***************************************************************************)
(* Properties of the poll loop.                                            *)
(***************************************************************************)
Body == { "cpu", "net", "mem", "temp", "row", "text", "sleep" }
NoLocals == cpu = << >> /\ mbps = << >> /\ mem = << >> /\ temperature = << >>
NoRead == UNCHANGED << now, ifstats, cpu, mbps, mem, temperature, read_err >>

\* C1: when the loop head (reached before any sampling of the iteration)
\* finds the flag set, the next step of main is the shutdown: no telemetry
\* read and no display write come after it, the display is switched off
\* exactly once, and main returns.
C1_StopObserved ==
    /\ [](pc = "check" => (NoLocals /\ calls = << >>))
    /\ [][(pc = "check" /\ stop) =>
             (pc' = "shutdown" /\ NoRead /\ UNCHANGED << calls, lcd >>)]_vars
    /\ [][pc = "shutdown" =>
             (/\ pc' = "done"
              /\ lcd'.offs = 1 /\ lcd'.power = "off" /\ ~lcd'.backlight
              /\ NoRead /\ UNCHANGED calls)]_vars
    /\ [][pc # "done"]_vars

C1_Witness ==
    pc = "done" /\ stop /\ iter >= 1 /\ lcd.offs = 1 /\ lcd.power = "off"

\* C2: the flag can be set at any point of an iteration; the iteration in
\* progress is not cut short (the shutdown is only entered between
\* iterations), no iteration begins once the flag is set (so at most one
\* further frame is started), and a run in which the flag was set and no
\* telemetry read failed ends in the shutdown (stated on the run's end: it
\* ends with main returning Ok or the read's Err).
C2_PolledCancel ==
    /\ (pc = "shutdown" => (NoLocals /\ calls = << >>))
    /\ ((stop /\ pc \in Body) => iter = sig_at)
    /\ ((stop /\ pc \in Terminal) => pc \in { "done", "failed" })

\* C3: a telemetry read that fails ends main with the error at once: no
\* display call of that iteration is made, nothing runs afterwards, and a
\* frame is only drawn from reads of its own iteration that all succeeded.
C3_ReadFailureFatal ==
    /\ (read_err => (pc = "failed" /\ calls = << >>))
    /\ (calls # << >> =>
          (/\ Len(cpu) = NumCores /\ Len(mbps) = Len(ifstats)
           /\ mem # << >> /\ temperature # << >>))

C3_Witness ==
    pc = "failed" /\ read_err /\ iter >= 1 /\ cpu # << >> /\ calls = << >>

(***************************************************************************)
(* Properties of NetStats and of the peak.                                 *)
(***************************************************************************)
WindowMs == HISTORY_SECS * 1000
Times(buckets) == [i \in 1..Len(buckets) |-> buckets[i][1]]

\* C4: after every successful poll the history ends with the new sample,
\* is in increasing time order and holds only entries less than 60 s older
\* than it; a poll removes entries from the front only, and only entries
\* that are 60 s old or older (polls 10, 30 and 65 s after a first one
\* leave the last three entries).
C4_HistoryWindow ==
    /\ [](p_res.tag = "ok" =>
            LET b == p_ns.buckets IN
            /\ b # << >>
            /\ b[Len(b)][1] = p_now
            /\ \A i \in 1..Len(b) : p_now - b[i][1] < WindowMs
            /\ \A i \in 1..(Len(b) - 1) : b[i][1] < b[i + 1][1])
    /\ [][p_res'.tag = "ok" =>
            \E k \in 0..Len(p_ns.buckets) :
               /\ SubSeq(p_ns'.buckets, 1, Len(p_ns'.buckets) - 1)
                     = SubSeq(p_ns.buckets, k + 1, Len(p_ns.buckets))
               /\ \A i \in 1..k : p_now' - p_ns.buckets[i][1] >= WindowMs]_vars

C4_Witness ==
    /\ p_res.tag = "ok" /\ p_res.n = 4
    /\ Times(p_ns.buckets) = << 20000, 40000, 75000 >>

\* the number a right-aligned decimal field shows
RECURSIVE FieldValue(_)
FieldValue(str) ==
    IF str = << >> THEN 0
    ELSE 10 * FieldValue(SubSeq(str, 1, Len(str) - 1))
           + (IF str[Len(str)] = SPACE THEN 0 ELSE str[Len(str)] - 48)

\* the peak pair of a finished frame: the print before the trailing " mem"
PeakText == calls[Len(calls) - 1].s
SlashAt == CHOOSE i \in 1..Len(PeakText) : PeakText[i] = SLASH
PeakField1 == SubSeq(PeakText, 1, SlashAt - 1)
PeakField2 == SubSeq(PeakText, SlashAt + 1, Len(PeakText))

\* m is the largest ceil(mbps) of component k (2: rx, 3: tx) over all
\* retained entries of all interfaces
Rate(e, k) == CeilU16(ifstats[e[1]].buckets[e[2]][k])
IsPeak(m, k) ==
    /\ \E e \in AllBuckets(ifstats) : Rate(e, k) = m
    /\ \A e \in AllBuckets(ifstats) : Rate(e, k) <= m

ClaimedDelta(old, new) ==
    IF new >= old THEN new - old ELSE MAX_VALUE - old + new

\* C6: for successive counter values old and new the rate is computed from
\* new - old when new >= old and from MAX_VALUE - old + new when new < old,
\* and the computation never faults.
C6_WrapDelta ==
    /\ p_res.tag # "panic"
    /\ p_res.tag = "ok" =>
          LET e == p_ns.buckets[Len(p_ns.buckets)]
              dur == e[1] - p_res.prev[1]
          IN  /\ e[2] = ToMbps(ClaimedDelta(p_res.prev[2], p_res.read.rx), dur)
              /\ e[3] = ToMbps(ClaimedDelta(p_res.prev[3], p_res.read.tx), dur)

(***************************************************************************)
(* Properties of display_char.                                             *)
(***************************************************************************)
InUnit(v) == v.d > 0 /\ 0 <= v.n /\ v.n <= v.d

\* ceil(24 * v) for v in [0, 1]: the least k with k >= 24 * v
Units(v) ==
    CHOOSE k \in 0..PIXEL_UNITS :
       /\ k * v.d >= PIXEL_UNITS * v.n
       /\ \A j \in 0..(k - 1) : j * v.d < PIXEL_UNITS * v.n

\* filled pixel rows of gauge row r when q of the 24 units are filled
RowPixels(q, r) == Min(8, Max(0, q - 8 * (2 - r)))
GlyphFor(pixels) == IF pixels = 0 THEN 32 ELSE pixels - 1

\* the pixel rows a result shows
Shown(byte) == IF byte = SPACE THEN 0 ELSE byte + 1

\* C7: for a value in [0, 1] and a row r, display_char gives the space for
\* 0 filled pixel rows and glyph pixels - 1 otherwise, where the row holds
\* the part of the ceil(24 * value) units that falls into it; the result is
\* 32 or in 0..7, 32 in every row for value 0 and 7 in every row for 1.
C7_Quantizer ==
    InUnit(q_value) =>
       \A r \in 0..(Len(q_out) - 1) :
          /\ ~q_out[r + 1].panic
          /\ q_out[r + 1].v = GlyphFor(RowPixels(Units(q_value), r))
          /\ q_out[r + 1].v \in (0..7) \cup { 32 }
          /\ (q_value.n = 0 => q_out[r + 1].v = 32)
          /\ (q_value.n = q_value.d => q_out[r + 1].v = 7)

C7_Witness ==
    /\ q_value = [n |-> 13, d |-> 24]
    /\ Len(q_out) = 3
    /\ q_out[1].v = 32 /\ q_out[2].v = 4 /\ q_out[3].v = 7

\* the filled pixel rows of a whole column
ColumnTotal(v) ==
    Shown(display_char(v, 0).v) + Shown(display_char(v, 1).v)
       + Shown(display_char(v, 2).v)

\* C8: the three rows of a value in [0, 1] form one bar filled from the
\* bottom: below a row that shows anything every row is solid, the filled
\* pixel rows add up to ceil(24 * value), and the total does not decrease
\* when the value grows (1/2 gives blank, 3, 7; 0.666 gives blank, 7, 7).
C8_Column ==
    (InUnit(q_value) /\ Len(q_out) = 3) =>
       /\ \A r \in 1..3 : \A b \in (r + 1)..3 :
             q_out[r].v # SPACE => q_out[b].v = 7
       /\ Shown(q_out[1].v) + Shown(q_out[2].v) + Shown(q_out[3].v) = Units(q_value)
       /\ q_value.n < q_value.d =>
             ColumnTotal(q_value) <= ColumnTotal([q_value EXCEPT !.n = @ + 1])
       /\ 2 * q_value.n = q_value.d =>
             << q_out[1].v, q_out[2].v, q_out[3].v >> = << 32, 3, 7 >>
       /\ q_value = [n |-> 666, d |-> 1000] =>
             << q_out[1].v, q_out[2].v, q_out[3].v >> = << 32, 7, 7 >>

C8_Witness ==
    /\ q_value = [n |-> 666, d |-> 1000]
    /\ Len(q_out) = 3
    /\ << q_out[1], q_out[2], q_out[3] >>
          = << [panic |-> FALSE, v |-> 32], [panic |-> FALSE, v |-> 7],
               [panic |-> FALSE, v |-> 7] >>

(***************************************************************************)
(* Properties of init_display's error handler.                             *)
(***************************************************************************)
Returned == d_ret # << >>
EntriesAt(steps) == { k \in 1..Len(d_log) : d_log[k].at \in steps }
InitPhase == { "init", "display_on", "upload" }

\* C9 as stated: an I/O error reported at any step of init_display
\* (controller init, display-on, glyph upload) makes init_display return
\* that error; errors after initialization are only logged; the handler
\* switches mode once.
C9_InitErrorsFatal ==
    /\ [](Returned =>
            /\ \A k \in EntriesAt(InitPhase) : ~d_ret[1].ok
            /\ \A k \in EntriesAt({ "write", "stop" }) : d_log[k].logged)
    /\ [][save_error' => save_error]_vars

\* C9 as amended: an I/O error reported during the controller init
\* (display.init) is saved, and init_display returns the last one saved
\* instead of a display; every error reported after the controller init,
\* display-on and glyph upload included, is only logged and changes neither
\* the result nor the saved error; the handler saves until the controller
\* init has been found clean, then logs, and never saves again.
C9_TwoPhase ==
    /\ [](/\ \A k \in 1..Len(d_log) : d_log[k].logged <=> d_log[k].at # "init"
          /\ Returned =>
                /\ EntriesAt({ "init" }) # {} =>
                      d_ret = << [ok |-> FALSE,
                                  e |-> d_log[MaxOf(EntriesAt({ "init" }))].e] >>
                /\ ~d_ret[1].ok => (d_ret[1].e = "open" \/ EntriesAt({ "init" }) # {})
          /\ save_error <=> d_pc \in { "open", "init", "check", "returned" }
          /\ ~save_error => error = NoValue)
    /\ [][save_error' => save_error]_vars
    /\ [][Returned => d_ret' = d_ret]_vars

C9_Witness ==
    /\ d_ret = << [ok |-> TRUE] >>
    /\ \E k \in 1..Len(d_log) : d_log[k].at = "upload" /\ d_log[k].logged
    /\ \E k \in 1..Len(d_log) : d_log[k].at = "write" /\ d_log[k].logged
    /\ ~save_error

(***************************************************************************)
(* The layout of a frame.                                                  *)
(***************************************************************************)
PositionCalls == { i \in 1..Len(calls) : calls[i].op = "position" }

\* index in calls of the k-th position call
IsPositionCall(i) == calls[i].op = "position"
NthPosition(k) == SelectSeq([i \in 1..Len(calls) |-> i], IsPositionCall)[k]

\* the bytes written by calls[from..to]
RECURSIVE Written(_, _)
Written(from, to) ==
    IF from > to THEN << >> ELSE calls[from].s \o Written(from + 1, to)

\* the bytes written after the k-th position call, up to the next one
RowBytes(k) ==
    Written(NthPosition(k) + 1,
            IF k = Cardinality(PositionCalls) THEN Len(calls)
            ELSE NthPosition(k + 1) - 1)

\* the glyph of interface j's column in row r: tx at offset 1, rx at 2
NetGlyph(j, offset, r) ==
    display_char(Ratio(mbps[j][IF offset = 1 THEN 2 ELSE 1]), r).v

\* a gauge row with a bare second separator
ClaimedRow(r) ==
    LET nc == Len(cpu)
        ni == Len(mbps)
    IN  [i \in 1..(nc + 2 * ni + 3) |->
           IF i <= nc THEN display_char(cpu[i], r).v
           ELSE IF i = nc + 1 THEN 124
           ELSE IF i <= nc + 1 + 2 * ni
                THEN NetGlyph((i - nc) \div 2, 1 + ((i - nc) % 2), r)
           ELSE IF i = nc + 2 * ni + 2 THEN 124
           ELSE display_char(mem[1], r).v]

\* a gauge row with the second separator followed by a space
PaddedRow(r) ==
    LET nc == Len(cpu)
        ni == Len(mbps)
    IN  [i \in 1..(nc + 2 * ni + 4) |->
           IF i <= nc THEN display_char(cpu[i], r).v
           ELSE IF i = nc + 1 THEN 124
           ELSE IF i <= nc + 1 + 2 * ni
                THEN NetGlyph((i - nc) \div 2, 1 + ((i - nc) % 2), r)
           ELSE IF i = nc + 2 * ni + 2 THEN 124
           ELSE IF i = nc + 2 * ni + 3 THEN 32
           ELSE display_char(mem[1], r).v]

RowsRendered ==
    CASE pc = "row" -> idx
      [] pc = "text" -> 3
      [] pc = "sleep" -> 4
      [] OTHER -> Cardinality(PositionCalls)

FrameOrder ==
    /\ Cardinality(PositionCalls) = RowsRendered
    /\ calls # << >> => calls[1].op = "position"
    /\ \A k \in 1..Cardinality(PositionCalls) :
          calls[NthPosition(k)] = [op |-> "position", col |-> 0, row |-> k - 1]

TEXT_COLS == 20

\* the text row's calls, once it has been written
TextCalls == SubSeq(calls, NthPosition(4), Len(calls))

\* C11: in the finished frame the temperature field is 2 cells, the peak
\* pair is 3 cells, a slash and 3 cells, and the text row is exactly 20
\* cells, so nothing is written past column 19 of row 3.
C11_TextRowWidth ==
    pc = "sleep" =>
       /\ Len(TextCalls[3].s) = 2
       /\ Len(TextCalls[6].s) = 7
       /\ TextCalls[6].s[4] = 47
       /\ Len(RowBytes(4)) = TEXT_COLS

(***************************************************************************)
(* The scale of the bandwidth gauges.                                      *)
(***************************************************************************)
\* clamp(log10(m) / 3, 0, 1) where it is a rational number; between the
\* powers of ten only its bracket is stated
LogRatioIs(ratio, m) ==
    CASE m <= 1 -> ratio.n = 0
      [] m = 10 -> 3 * ratio.n = ratio.d
      [] m = 100 -> 3 * ratio.n = 2 * ratio.d
      [] m >= 1000 -> ratio.n = ratio.d
      [] m < 10 -> 0 < ratio.n /\ 3 * ratio.n < ratio.d
      [] m < 100 -> ratio.d < 3 * ratio.n /\ 3 * ratio.n < 2 * ratio.d
      [] OTHER -> 2 * ratio.d < 3 * ratio.n /\ ratio.n < ratio.d

\* C12: the ratio given to the quantizer for a throughput of m Mbps is
\* clamp(log10(m) / 3, 0, 1): 0 and an empty gauge up to 1 Mbps, 1/3 at 10,
\* 2/3 at 100, 1 and a full gauge from 1000 Mbps on.
C12_LogScale ==
    \A k \in 1..Len(g_out) :
       /\ LogRatioIs(g_out[k].rx, g_pair[1])
       /\ LogRatioIs(g_out[k].tx, g_pair[2])
       /\ g_pair[2] <= 1 => g_out[k].calls[1].s = << 32 >>
       /\ g_pair[2] >= 1000 => g_out[k].calls[1].s = << 7 >>
       /\ g_pair[1] <= 1 => g_out[k].calls[2].s = << 32 >>
       /\ g_pair[1] >= 1000 => g_out[k].calls[2].s = << 7 >>

(***************************************************************************)
(* The order of the phases of an iteration.                                *)
(***************************************************************************)
Sampling == { "cpu", "net", "mem", "temp" }
Rendering == { "row", "text" }
AllRead ==
    /\ Len(cpu) = NumCores /\ Len(mbps) = Len(ifstats)
    /\ mem # << >> /\ temperature # << >>
Reads == << ifstats, cpu, mbps, mem, temperature >>

\* C13: in an iteration every telemetry read is made before the first
\* display call, the sleep starts after the last display call of the frame
\* (the text row), and the loop head of the next iteration (flag check,
\* then sampling) is only reached when the sleep has ended.
C13_PhaseOrder ==
    /\ [](pc \in Sampling => calls = << >>)
    /\ [](pc \in Rendering \cup { "sleep" } => AllRead)
    /\ [][(pc \in Sampling) => (Reads' # Reads \/ pc' = "failed" \/ pc' = "panicked")]_pc
    /\ [][calls' # calls =>
            \/ pc \in Rendering /\ AllRead /\ UNCHANGED << Reads, now >>
            \/ pc = "sleep" /\ calls' = << >>]_mainVars
    /\ [][pc' = "sleep" => (pc = "text" /\ calls'[Len(calls')] = PrintStr(STR_MEM))]_pc
    /\ [][now' >= now + SLEEP_MS =>
            (pc = "sleep" /\ pc' = "check" /\ Cardinality(PositionCalls) = 4)]_mainVars
    /\ [][pc' = "check" => pc \in { "new_cpu", "sleep" }]_pc
    /\ [][iter' # iter =>
            (pc = "check" /\ pc' = "cpu" /\ iter' = iter + 1 /\ calls = << >>
             /\ cpu = << >> /\ mbps = << >> /\ mem = << >> /\ temperature = << >>)]_mainVars

C13_Witness ==
    /\ pc = "cpu" /\ iter = 2 /\ now >= SLEEP_MS /\ calls = << >>
    /\ \A i \in 1..Len(ifstats) : Len(ifstats[i].buckets) >= 1

(***************************************************************************)
(* The peak is defined whenever it is computed.                            *)
(***************************************************************************)
Polled == { "mem", "temp", "row", "text", "sleep" }

\* the newest history entry of interface i is the sample of its last poll
HoldsLastPoll(i) ==
    LET b == ifstats[i].buckets IN
    /\ b # << >>
    /\ b[Len(b)][1] = ifstats[i].last[1]
    /\ \A j \in 1..Len(b) : b[Len(b)][1] - b[j][1] < HISTORY_SECS * 1000

\* C14: once the interfaces have been polled in an iteration, the first
\* one included, every interface's history holds the sample of that poll
\* (pruning ran before the push and cannot remove it), so when the text row
\* computes the two maxima there is at least one entry and neither unwrap
\* panics.
C14_PeakDefined ==
    /\ [](pc \in Polled =>
            /\ Len(ifstats) = Len(NET_DEV_NAMES)
            /\ \A i \in 1..Len(ifstats) : HoldsLastPoll(i))
    /\ [](pc = "text" =>
            /\ AllBuckets(ifstats) # {}
            /\ ~max_rx_mbps(ifstats).panic /\ ~max_tx_mbps(ifstats).panic)
    /\ [][pc = "text" => pc' = "sleep"]_pc

\* the second iteration after a sleep of a minute: the first entry has
\* been pruned, the new one is there
C14_Witness ==
    /\ pc = "text" /\ iter = 2
    /\ \A i \in 1..Len(ifstats) :
          /\ Len(ifstats[i].buckets) = 1
          /\ now - ifstats[i].buckets[1][1] < HISTORY_SECS * 1000
    /\ now > HISTORY_SECS * 1000

(***************************************************************************)
(* The preconditions of display_char in the row loop.                      *)
(***************************************************************************)
\* the values the row loop gives to display_char
GaugeValues ==
    { cpu[i] : i \in 1..Len(cpu) }
       \cup { Ratio(mbps[j][1]) : j \in 1..Len(mbps) }
       \cup { Ratio(mbps[j][2]) : j \in 1..Len(mbps) }
       \cup { mem[1] }

Startup == { "new_if", "new_cpu" }

\* C16: the NetStats of every configured interface and the CPUStats are
\* created before the loop and nowhere else; when one of the initial reads
\* fails, main returns the error at once: the loop is never entered, no
\* iteration runs and no display call of a frame is made.
C16_StartupAbort ==
    /\ [](pc \in Startup => (iter = 0 /\ calls = << >> /\ ~read_err))
    /\ [](iter = 0 => (calls = << >> /\ cpu = << >> /\ mbps = << >>))
    /\ [][(pc \in Startup /\ read_err') =>
             (pc' = "failed" /\ UNCHANGED << ifstats, iter, calls, lcd >>)]_mainVars
    /\ [][Len(ifstats') # Len(ifstats) =>
             (pc = "new_if" /\ Len(ifstats') = Len(ifstats) + 1)]_mainVars
    /\ [](pc \in { "check", "cpu" } => Len(ifstats) = Len(NET_DEV_NAMES))
    /\ [][pc # "failed"]_mainVars

C16_Witness ==
    /\ pc = "failed" /\ read_err /\ iter = 0 /\ calls = << >>
    /\ Len(ifstats) = Len(NET_DEV_NAMES)
    /\ lcd.power = "on"

(***************************************************************************)
(* The custom glyphs.                                                      *)
(***************************************************************************)
\* glyph g, rows 1..8 from the top: the bottom g + 1 rows have all five
\* pixels set, the 7 - g rows above are empty
BarGlyph(g) == [r \in 1..8 |-> IF r >= 8 - g THEN 31 ELSE 0]
Uploaded == \A g \in 0..7 : lcd.glyphs[g + 1] = BarGlyph(g)
FilledRows(bits) == Cardinality({ r \in 1..Len(bits) : bits[r] # 0 })

\* the glyph bytes written in the current frame
GlyphBytes ==
    { calls[i].s[1] : i \in { k \in 1..Len(calls) : calls[k].op = "write" } }
       \cap (0..7)

\* C17: the eight glyphs are uploaded when the display is opened, before
\* any call of a frame; glyph i has exactly its bottom i + 1 pixel rows
\* filled, so a byte pixels - 1 written by the row loop shows pixels rows.
C17_Glyphs ==
    /\ [](pc \notin { "open", "failed" } => Uploaded)
    /\ [](calls # << >> => Uploaded)
    /\ [](\A b \in GlyphBytes :
             /\ FilledRows(lcd.glyphs[b + 1]) = b + 1
             /\ \A r \in 1..8 : lcd.glyphs[b + 1][r] # 0 =>
                   (lcd.glyphs[b + 1][r] = 31 /\ r > 8 - (b + 1)))
    /\ [][lcd'.glyphs # lcd.glyphs => (pc = "open" /\ calls = << >> /\ iter = 0)]_lcd

C17_Witness ==
    /\ pc = "sleep"
    /\ Uploaded
    /\ 1 \in GlyphBytes /\ 7 \in GlyphBytes
    /\ lcd.glyphs[2] = << 0, 0, 0, 0, 0, 0, 31, 31 >>

(***************************************************************************)
(* MockDisplay's cells and cursor.                                         *)
(***************************************************************************)
\* U+2581 .. U+2588: the lower one eighth block .. the full block
LowerBlock(eighths) == 9600 + eighths

\* the cell the last write stored into
LastCell == m_disp.lines[m_last.before.pos[1]][m_last.before.pos[2]]

\* the cells MockDisplay stores for the glyph bytes 0..7
MockGlyphCells == { MockChar(g) : g \in 0..7 }

\* C18: a write of glyph byte g (0..7) stores the bar of g + 1 eighths;
\* the eight glyphs give eight distinct cells, none the blank stored for a
\* space, and glyph 7 is the solid block.
C18_MockGlyphs ==
    (m_last.op = "write" /\ m_last.arg[1] \in 0..7 /\ ~m_panic) =>
       /\ LastCell = LowerBlock(m_last.arg[1] + 1)
       /\ LastCell # MockChar(32)
       /\ m_last.arg[1] = 7 => LastCell = LowerBlock(8)
       /\ Cardinality(MockGlyphCells) = 8

InGrid(pos) == pos[1] \in 0..3 /\ pos[2] \in 0..19

\* the cursor k cells further in reading order, wrapping from the last cell
\* of row 3 to the first of row 0
Advance(pos, k) ==
    LET at == (pos[1] * 20 + pos[2] + k) % 80 IN << at \div 20, at % 20 >>

\* the cells that differ between two grids
Changed(old, new) ==
    { rc \in (0..3) \X (0..19) : old[rc[1]][rc[2]] # new[rc[1]][rc[2]] }

\* C19: after any sequence of position, write and print calls the cursor is
\* inside the 4 x 20 grid and no write has indexed out of bounds; position
\* clamps the row to 3 and the column to 19; a write moves the cursor one
\* cell on, from column 19 to column 0 of the next row and from the last
\* cell of row 3 to row 0, and changes no cell but the one under the cursor.
C19_CursorInGrid ==
    /\ ~m_panic
    /\ InGrid(m_disp.pos)
    /\ m_last.op = "position" =>
          /\ m_disp.pos[1] = (IF m_last.arg[2] > 3 THEN 3 ELSE m_last.arg[2])
          /\ m_disp.pos[2] = (IF m_last.arg[1] > 19 THEN 19 ELSE m_last.arg[1])
          /\ Changed(m_last.before.lines, m_disp.lines) = {}
    /\ m_last.op = "write" =>
          /\ m_disp.pos = Advance(m_last.before.pos, 1)
          /\ m_last.before.pos[2] = 19 => m_disp.pos[2] = 0
          /\ m_last.before.pos = << 3, 19 >> => m_disp.pos = << 0, 0 >>
          /\ Changed(m_last.before.lines, m_disp.lines) \subseteq { m_last.before.pos }
    /\ m_last.op = "print" =>
          /\ m_disp.pos = Advance(m_last.before.pos, Len(m_last.arg))
          /\ Changed(m_last.before.lines, m_disp.lines) \subseteq
                { Advance(m_last.before.pos, k) : k \in 0..(Len(m_last.arg) - 1) }

\* a write at the last cell of row 3, reached through a clamped position
C19_Witness ==
    /\ m_last.op = "write"
    /\ m_last.before.pos = << 3, 19 >>
    /\ m_disp.pos = << 0, 0 >>
    /\ m_disp.lines[3][19] = 65
    /\ ~m_panic

(***************************************************************************)
(* The shutdown action and the failure paths.                              *)
(***************************************************************************)
\* C20: the display is switched off (display off, backlight off) only by
\* the shutdown block, entered from the loop head with the flag set, and at
\* most once; a run that ends with a failed start-up or mid-loop read
\* leaves the display on and makes no display call on the way out, so the
\* last frame written stays on it.
C20_ShutdownOnlyOnCancel ==
    /\ [](lcd.offs \in { 0, 1 })
    /\ [](lcd.offs = 1 => (pc = "done" /\ stop /\ ~read_err /\ ~lcd.backlight))
    /\ []((pc = "failed" /\ read_err) =>
             (lcd.power = "on" /\ lcd.backlight /\ lcd.offs = 0))
    /\ [][pc' = "failed" => UNCHANGED << lcd, calls >>]_mainVars
    /\ [][(lcd.power = "on" /\ lcd'.power = "off") =>
             (pc = "shutdown" /\ stop /\ calls = << >> /\ pc' = "done")]_mainVars
    /\ [][pc \notin { "failed", "done" }]_mainVars

\* a read of the second iteration fails after a complete first frame
C20_Witness ==
    /\ pc = "failed" /\ read_err /\ iter = 2
    /\ lcd.power = "on" /\ lcd.backlight /\ lcd.offs = 0
    /\ \A i \in 1..Len(ifstats) : Len(ifstats[i].buckets) >= 1

=============================================================================
